---- MODULE Spec2Model ----
(***************************************************************************)
(* Model of the Tamagotchi pet of Dramagotchi.py: four stats that decay    *)
(* with the wall-clock time read by tick(), and the actions feed, play,    *)
(* sleep, clean, talk and summary that the command line loop and the       *)
(* window's buttons invoke.  Time is counted in whole seconds; for whole   *)
(* seconds int((seconds / 60) * rate) of the source equals                 *)
(* (seconds * rate) \div 60.                                               *)
(***************************************************************************)
EXTENDS Integers, Sequences, FiniteSets, TLC

VARIABLES
    hunger,       \* Tamagotchi.hunger
    happiness,    \* Tamagotchi.happiness
    energy,       \* Tamagotchi.energy
    hygiene,      \* Tamagotchi.hygiene
    last_update,  \* Tamagotchi.last_update, in seconds since the creation
    created,      \* the stat values the constructor was called with
    op,           \* the method called last ("init" after construction)
    now,          \* the clock reading the last call took (datetime.now())
    afterTick,    \* the stats right after the leading tick() of the last call
    response,     \* the string the last call returned ("" for tick's None)
    calls,        \* number of method calls so far
    before,       \* the method called before the last one, and its clock reading
    clock,        \* TamagotchiWindow: the wall-clock time of the last callback
    buttons,      \* TamagotchiWindow.buttons: TRUE while they are enabled
    loop_job,     \* TamagotchiWindow: TRUE while an after(2000, _update_loop) is pending
    loop_due,     \* TamagotchiWindow: the time at which the pending _update_loop is due
    game_overs    \* TamagotchiWindow: number of executions of _handle_game_over

pet_vars == <<hunger, happiness, energy, hygiene, last_update, created,
              op, now, afterTick, response, calls, before>>

window_vars == <<clock, buttons, loop_job, loop_due, game_overs>>

vars == <<hunger, happiness, energy, hygiene, last_update, created,
          op, now, afterTick, response, calls, before,
          clock, buttons, loop_job, loop_due, game_overs>>

stats == <<hunger, happiness, energy, hygiene>>

----------------------------------------------------------------------------
(* Bounds of the exploration *)

MaxCalls == 3

\* Callbacks run in the window, and seconds an idle window is watched
MaxGuiCalls == 6
IdleHorizon == 1200

\* Clock readings, as offsets in seconds from last_update: a clock that went
\* back, one that did not move, 15 seconds, one minute and ten minutes.
ClockOffsets == {-30, 0, 15, 60, 600}

----------------------------------------------------------------------------
(* Program constants *)

MAX_STAT == 100
MIN_STAT == 0

hunger_decay == 4
happiness_decay == 2
energy_decay == 3
hygiene_decay == 1

SecondsPerMinute == 60

\* self.after(2000, self._update_loop), in seconds
TimerPeriod == 2

PetName == "Tama"

DefaultStats == [hunger |-> 65, happiness |-> 60, energy |-> 55, hygiene |-> 70]

----------------------------------------------------------------------------
(* Pure helpers *)

Min(a, b) == IF a <= b THEN a ELSE b
Max(a, b) == IF a >= b THEN a ELSE b

\* clamp(value, low=MIN_STAT, high=MAX_STAT)
clamp_nolow(value) == Min(MAX_STAT, value)
clamp(value) == Max(MIN_STAT, Min(MAX_STAT, value))

\* Python's int() of the quotient a / b, b > 0: truncation toward zero
int_div(a, b) == IF a >= 0 THEN a \div b ELSE -((-a) \div b)

\* the nested decay(stat, rate) of tick, with minutes = seconds / 60
decay_round(stat, rate, seconds) ==
    clamp(stat - int_div(2 * seconds * rate + SecondsPerMinute, 2 * SecondsPerMinute))
decay(stat, rate, seconds) ==
    clamp(stat - int_div(seconds * rate, SecondsPerMinute))

\* The pet as a record of its mutable fields
Pet == [hunger |-> hunger, happiness |-> happiness, energy |-> energy,
        hygiene |-> hygiene, last_update |-> last_update]

StatsOf(p) == <<p.hunger, p.happiness, p.energy, p.hygiene>>

\* Tamagotchi.tick with datetime.now() = n
tick_noguard(p, n) ==
    LET seconds == n - p.last_update
    IN  [hunger      |-> decay(p.hunger, hunger_decay, seconds),
         happiness   |-> decay(p.happiness, happiness_decay, seconds),
         energy      |-> decay(p.energy, energy_decay, seconds),
         hygiene     |-> decay(p.hygiene, hygiene_decay, seconds),
         last_update |-> n]
tick_stamp(p, n) ==
    LET seconds == n - p.last_update
    IN  IF seconds <= 0
        THEN [p EXCEPT !.last_update = n]
        ELSE tick_noguard(p, n)
tick_nostamp(p, n) ==
    [tick_stamp(p, n) EXCEPT !.last_update = p.last_update]
tick_pet(p, n) ==
    LET seconds == n - p.last_update
    IN  IF seconds <= 0
        THEN p
        ELSE [hunger      |-> decay(p.hunger, hunger_decay, seconds),
              happiness   |-> decay(p.happiness, happiness_decay, seconds),
              energy      |-> decay(p.energy, energy_decay, seconds),
              hygiene     |-> decay(p.hygiene, hygiene_decay, seconds),
              last_update |-> n]

\* Tamagotchi.is_alive
alive_any(p) == \E stat \in {p.hunger, p.happiness, p.energy, p.hygiene} : stat > MIN_STAT
alive(p) == \A stat \in {p.hunger, p.happiness, p.energy, p.hygiene} : stat > MIN_STAT
is_alive == alive(Pet)

\* ' and '.join(needs)
RECURSIVE join_and(_)
join_and(needs) ==
    IF Len(needs) = 0 THEN ""
    ELSE IF Len(needs) = 1 THEN needs[1]
    ELSE needs[1] \o " and " \o join_and(Tail(needs))

\* Tamagotchi._mood_text
mood_text_le(p) ==
    LET moods == << <<p.hunger, "hungry">>, <<p.happiness, "bored">>,
                    <<p.energy, "sleepy">>, <<p.hygiene, "dirty">> >>
        below == SelectSeq(moods, LAMBDA m : m[1] <= 30)
        needs == [i \in 1..Len(below) |-> below[i][2]]
    IN  IF needs = <<>>
        THEN PetName \o " is feeling great!"
        ELSE PetName \o " feels a bit " \o join_and(needs) \o "."
mood_text(p) ==
    LET moods == << <<p.hunger, "hungry">>, <<p.happiness, "bored">>,
                    <<p.energy, "sleepy">>, <<p.hygiene, "dirty">> >>
        below == SelectSeq(moods, LAMBDA m : m[1] < 30)
        needs == [i \in 1..Len(below) |-> below[i][2]]
    IN  IF needs = <<>>
        THEN PetName \o " is feeling great!"
        ELSE PetName \o " feels a bit " \o join_and(needs) \o "."

\* f"{s:>width}": s padded on the left to the width
RECURSIVE rjust(_, _)
rjust(s, width) == IF Len(s) >= width THEN s ELSE rjust(" " \o s, width)

\* "█" * n
RECURSIVE bar(_)
bar(n) == IF n <= 0 THEN "" ELSE "█" \o bar(n - 1)

\* one line of Tamagotchi.summary
summary_line(label, value) ==
    rjust(label, 10) \o ": " \o rjust(ToString(value), 3) \o " % |" \o bar(value \div 5)

\* Tamagotchi.summary
summary_text(p) ==
    summary_line("Hunger", p.hunger) \o "\n" \o
    summary_line("Happiness", p.happiness) \o "\n" \o
    summary_line("Energy", p.energy) \o "\n" \o
    summary_line("Hygiene", p.hygiene)

----------------------------------------------------------------------------
(* The stat changes of the actions, applied after their leading tick *)

feed_stats_noclamp(p) ==
    [p EXCEPT !.hunger  = p.hunger + 25,
              !.energy  = clamp(p.energy + 5),
              !.hygiene = clamp(p.hygiene - 5)]
feed_stats(p) ==
    [p EXCEPT !.hunger  = clamp(p.hunger + 25),
              !.energy  = clamp(p.energy + 5),
              !.hygiene = clamp(p.hygiene - 5)]

play_refused_le(p) == p.energy <= 15
play_refused(p) == p.energy < 15

play_stats_nohunger(p) ==
    [p EXCEPT !.happiness = clamp(p.happiness + 20),
              !.energy    = clamp(p.energy - 15),
              !.hygiene   = clamp(p.hygiene - 5)]
play_stats(p) ==
    [p EXCEPT !.happiness = clamp(p.happiness + 20),
              !.energy    = clamp(p.energy - 15),
              !.hunger    = clamp(p.hunger - 10),
              !.hygiene   = clamp(p.hygiene - 5)]

sleep_stats_hygiene(p) ==
    [p EXCEPT !.energy  = clamp(p.energy + 25),
              !.hunger  = clamp(p.hunger - 10),
              !.hygiene = clamp(p.hygiene - 5)]
sleep_stats(p) ==
    [p EXCEPT !.energy = clamp(p.energy + 25),
              !.hunger = clamp(p.hunger - 10)]

clean_stats(p) ==
    [p EXCEPT !.hygiene   = clamp(p.hygiene + 30),
              !.happiness = clamp(p.happiness - 5)]

----------------------------------------------------------------------------
(* State machine *)

\* Stat values a caller passes to Tamagotchi(name, hunger=..., ...): the
\* defaults, and the pets of the documented examples.
ValidArgs ==
    { DefaultStats,
      [hunger |-> 90, happiness |-> 60, energy |-> 10, hygiene |-> 70],
      [hunger |-> 10, happiness |-> 80, energy |-> 15, hygiene |-> 80],
      [hunger |-> 100, happiness |-> 100, energy |-> 100, hygiene |-> 3] }

\* The dataclass constructor stores whatever integers it is given.
AnyArgs ==
    ValidArgs \cup
    { [hunger |-> 150, happiness |-> 60, energy |-> 55, hygiene |-> 70],
      [hunger |-> 65, happiness |-> -5, energy |-> 55, hygiene |-> 70] }

\* Tamagotchi.__init__ (generated by @dataclass)
Construct(args) ==
    /\ hunger = args.hunger
    /\ happiness = args.happiness
    /\ energy = args.energy
    /\ hygiene = args.hygiene
    /\ last_update = 0
    /\ created = args
    /\ op = "init"
    /\ now = 0
    /\ afterTick = StatsOf(args)
    /\ response = ""
    /\ calls = 0
    /\ before = <<"init", 0>>

\* A pet that no window holds
NoWindow ==
    /\ clock = 0
    /\ buttons = FALSE
    /\ loop_job = FALSE
    /\ loop_due = 0
    /\ game_overs = 0

Init == \E args \in ValidArgs : Construct(args) /\ NoWindow

InitAnyArgs == \E args \in AnyArgs : Construct(args) /\ NoWindow

\* The clock readings a call may take
ClockReadings == { last_update + d : d \in ClockOffsets }

\* A run of method `name` that read the clock as n, had the pet as `mid`
\* after its leading tick, leaves it as `result` and returns `resp`.
Apply(name, n, mid, result, resp) ==
    /\ calls' = calls + 1
    /\ op' = name
    /\ now' = n
    /\ afterTick' = StatsOf(mid)
    /\ hunger' = result.hunger
    /\ happiness' = result.happiness
    /\ energy' = result.energy
    /\ hygiene' = result.hygiene
    /\ last_update' = result.last_update
    /\ response' = resp
    /\ before' = <<op, now>>
    /\ UNCHANGED created

\* The methods, with datetime.now() = n in their tick

tick_at(n) ==
    LET t == tick_pet(Pet, n)
    IN  Apply("tick", n, t, t, "")

feed_at(n) ==
    LET t == tick_pet(Pet, n)
        r == feed_stats(t)
    IN  Apply("feed", n, t, r, "Yummy! " \o mood_text(r))

play_at(n) ==
    LET t == tick_pet(Pet, n)
        r == play_stats(t)
    IN  IF play_refused(t)
        THEN Apply("play", n, t, t, "Too tired to play right now. Maybe a nap first?")
        ELSE Apply("play", n, t, r, "That was fun! " \o mood_text(r))

sleep_at(n) ==
    LET t == tick_pet(Pet, n)
        r == sleep_stats(t)
    IN  Apply("sleep", n, t, r, "Zzz... Feeling rested now!")

clean_at(n) ==
    LET t == tick_pet(Pet, n)
        r == clean_stats(t)
    IN  Apply("clean", n, t, r, "Splash splash! All squeaky clean.")

talk_moody_at(n) ==
    LET t == tick_pet(Pet, n)
        r == [t EXCEPT !.happiness = clamp(t.happiness + 5)]
    IN  Apply("talk", n, t, r, mood_text(r))
talk_at(n) ==
    LET t == tick_pet(Pet, n)
    IN  Apply("talk", n, t, t, mood_text(t))

\* summary reads the stats as they are: it takes no clock reading
summary_now ==
    Apply("summary", now, Pet, Pet, summary_text(Pet))

\* A method called directly on a pet that no window holds
Call(A) == calls < MaxCalls /\ A /\ UNCHANGED window_vars

tick == \E n \in ClockReadings : Call(tick_at(n))

feed == \E n \in ClockReadings : Call(feed_at(n))

play == \E n \in ClockReadings : Call(play_at(n))

sleep == \E n \in ClockReadings : Call(sleep_at(n))

clean == \E n \in ClockReadings : Call(clean_at(n))

talk == \E n \in ClockReadings : Call(talk_at(n))

summary == Call(summary_now)

Next == tick \/ feed \/ play \/ sleep \/ clean \/ talk \/ summary

Spec == Init /\ [][Next]_vars

SpecAnyArgs == InitAnyArgs /\ [][Next]_vars

\* Pets for the mood text: every stat below, just below, at and above the
\* threshold of 30, in every combination; talk returns _mood_text.
MoodLevels == {10, 29, 30, 80}

InitMood ==
    \E h \in MoodLevels, ha \in MoodLevels, e \in MoodLevels, hy \in MoodLevels :
        /\ Construct([hunger |-> h, happiness |-> ha, energy |-> e, hygiene |-> hy])
        /\ NoWindow

NextMood == talk

SpecMood == InitMood /\ [][NextMood]_vars

----------------------------------------------------------------------------
(* The window of run_gui: TamagotchiWindow *)

\* TamagotchiWindow(Tamagotchi(name)): __init__ runs _update_loop once, whose
\* tick finds no time elapsed and which schedules itself; the buttons are
\* enabled.
InitGUI ==
    /\ Construct(DefaultStats)
    /\ clock = 0
    /\ buttons = TRUE
    /\ loop_job = TRUE
    /\ loop_due = TimerPeriod
    /\ game_overs = 0

\* TamagotchiWindow._handle_game_over
handle_game_over ==
    /\ buttons' = FALSE
    /\ game_overs' = game_overs + 1

\* The times at which a button can be pressed next: now or a second later,
\* and not after the pending _update_loop is due.
PressTimes == { c \in {clock, clock + 1} : loop_job => c <= loop_due }

\* The times at which the pending _update_loop runs: when due, or a second late
LoopTimes == { loop_due, loop_due + 1 }

\* TamagotchiWindow._perform_action, for the six buttons of _build_layout
perform_action ==
    /\ buttons
    /\ \E c \in PressTimes :
          /\ clock' = c
          /\ \/ feed_at(c)
             \/ play_at(c)
             \/ sleep_at(c)
             \/ clean_at(c)
             \/ talk_at(c)
             \/ summary_now
          /\ IF ~is_alive'
             THEN handle_game_over
             ELSE UNCHANGED <<buttons, game_overs>>
          /\ UNCHANGED <<loop_job, loop_due>>

\* TamagotchiWindow._update_loop
update_loop ==
    /\ loop_job
    /\ \E c \in LoopTimes :
          /\ clock' = c
          /\ tick_at(c)
          /\ IF is_alive'
             THEN /\ loop_job' = TRUE
                  /\ loop_due' = c + TimerPeriod
                  /\ UNCHANGED <<buttons, game_overs>>
             ELSE /\ loop_job' = FALSE
                  /\ loop_due' = loop_due
                  /\ handle_game_over

NextGUI ==
    \/ calls < MaxGuiCalls /\ perform_action
    \/ calls < MaxGuiCalls /\ update_loop

SpecGUI == InitGUI /\ [][NextGUI]_vars

\* The window with no button pressed
NextGUIIdle == clock < IdleHorizon /\ update_loop

SpecGUIIdle == InitGUI /\ [][NextGUIIdle]_vars

----------------------------------------------------------------------------
(* Properties *)

InRange(v) == v \in MIN_STAT..MAX_STAT

StatsInRange == InRange(hunger) /\ InRange(happiness) /\ InRange(energy) /\ InRange(hygiene)

ArgsInRange(args) ==
    InRange(args.hunger) /\ InRange(args.happiness) /\ InRange(args.energy) /\ InRange(args.hygiene)

AnyZero(s) == \E i \in 1..4 : s[i] = 0

Refusal == "Too tired to play right now. Maybe a nap first?"

\* C1 as stated: in every reachable state of a pet, whatever stat values it
\* was created with, each of the four stats is an integer in 0..100.
C1_StatsAlwaysInRange == StatsInRange

\* C1 amended: in every reachable state of a pet created with the default
\* stat values or with caller-supplied values that are each in 0..100, each
\* of the four stats is an integer in 0..100.
C1_StatsInRangeWhenCreatedInRange == ArgsInRange(created) => StatsInRange

\* a pet created in range, fed when its hunger was above 75: the clamp acted
C1_Witness ==
    /\ ArgsInRange(created)
    /\ op = "feed"
    /\ afterTick[1] > 75
    /\ hunger = 100

\* C2: once a stat has had the value 0, in a state between two calls or
\* right after the leading tick of a call, is_alive is false after every
\* later call: the pet never comes back to life.
C2_GameOverIsOneWay ==
    [][(AnyZero(stats) \/ AnyZero(afterTick')) => ~is_alive']_vars

\* C3: in a state where at least one stat equals 0, no call changes the
\* value of any of the four stats.
C3_GameOverIsTerminal ==
    [][AnyZero(stats) => stats' = stats]_vars

\* C4: tick with a clock reading earlier than or equal to last_update leaves
\* the four stats and last_update unchanged.
C4_TickNoOpWhenClockNotAdvanced ==
    [][(op' = "tick" /\ now' <= last_update)
         => (stats' = stats /\ last_update' = last_update)]_vars

\* a tick that read a clock earlier than last_update
C4_Witness == op = "tick" /\ now < last_update

\* C5: last_update never decreases, whatever the clock readings are.
C5_LastUpdateNeverDecreases ==
    [][last_update' >= last_update]_vars

\* a call that read a clock earlier than a last_update set by an earlier call
C5_Witness == op = "feed" /\ now < last_update /\ last_update > 0

\* C6: a clock reading later than last_update sets each stat s with rate r
\* to clamp(s - floor(elapsedMinutes * r)), with one elapsed figure for the
\* four stats, and sets last_update to the reading; hunger 65 becomes 25
\* after ten minutes, and a stat with elapsedMinutes * r < 1 is unchanged.
C6_TickDecay ==
    [][(op' # "summary" /\ now' > last_update) =>
         LET e == now' - last_update
             after(s, r) == Max(0, Min(100, s - ((e * r) \div 60)))
         IN  /\ afterTick' = <<after(hunger, 4), after(happiness, 2),
                               after(energy, 3), after(hygiene, 1)>>
             /\ last_update' = now'
             /\ op' = "tick" => stats' = afterTick'
             /\ (hunger = 65 /\ e = 600) => afterTick'[1] = 25
             /\ e * 4 < 60 => afterTick'[1] = hunger
             /\ e * 2 < 60 => afterTick'[2] = happiness
             /\ e * 3 < 60 => afterTick'[3] = energy
             /\ e * 1 < 60 => afterTick'[4] = hygiene]_vars

\* the default pet, ticked exactly ten minutes after its creation
C6_Witness ==
    /\ created = DefaultStats
    /\ op = "tick"
    /\ calls = 1
    /\ now = 600
    /\ last_update = 600
    /\ hunger = 25

\* C7: play with energy below 15 after the leading tick leaves the stats as
\* the tick left them and returns the refusal; with energy exactly 15 play
\* is not refused.
C7_PlayRefusedWhenTired ==
    [][op' = "play" =>
         /\ afterTick'[3] < 15 => (stats' = afterTick' /\ response' = Refusal)
         /\ afterTick'[3] = 15 => (response' # Refusal /\ energy' = 0)]_vars

\* a refused play
C7_Witness == op = "play" /\ afterTick[3] = 10 /\ response = Refusal /\ energy = 10

\* C8: feed, relative to the stats after its leading tick, sets hunger to
\* min(100, hunger + 25), energy to min(100, energy + 5) and hygiene to
\* max(0, hygiene - 5), and leaves happiness unchanged; hunger 90 becomes 100.
C8_Feed ==
    [][op' = "feed" =>
         /\ hunger' = Min(100, afterTick'[1] + 25)
         /\ happiness' = afterTick'[2]
         /\ energy' = Min(100, afterTick'[3] + 5)
         /\ hygiene' = Max(0, afterTick'[4] - 5)
         /\ afterTick'[1] = 90 => hunger' = 100]_vars

\* a pet with hunger 90 that was fed
C8_Witness == op = "feed" /\ afterTick[1] = 90 /\ hunger = 100 /\ hygiene = afterTick[4] - 5

\* C9: play with energy at least 15 after the leading tick sets happiness to
\* min(100, happiness + 20), energy to energy - 15 (never negative), hunger
\* to max(0, hunger - 10) and hygiene to max(0, hygiene - 5), and returns the
\* fun message followed by the mood text of the updated stats.
C9_Play ==
    [][(op' = "play" /\ afterTick'[3] >= 15) =>
         /\ happiness' = Min(100, afterTick'[2] + 20)
         /\ energy' = afterTick'[3] - 15
         /\ energy' >= 0
         /\ hunger' = Max(0, afterTick'[1] - 10)
         /\ hygiene' = Max(0, afterTick'[4] - 5)
         /\ response' = "That was fun! " \o mood_text(Pet')]_vars

\* a play that was not refused and took hunger down to 0
C9_Witness ==
    /\ op = "play"
    /\ afterTick[3] >= 15
    /\ afterTick[1] \in 1..9
    /\ hunger = 0
    /\ response # Refusal

\* C10: relative to the stats after the leading tick, sleep changes only
\* energy (to min(100, energy + 25)) and hunger (to max(0, hunger - 10)),
\* clean changes only hygiene (to min(100, hygiene + 30)) and happiness (to
\* max(0, happiness - 5)), and each returns its fixed message.
C10_SleepAndClean ==
    [][/\ op' = "sleep" =>
            /\ energy' = Min(100, afterTick'[3] + 25)
            /\ hunger' = Max(0, afterTick'[1] - 10)
            /\ happiness' = afterTick'[2]
            /\ hygiene' = afterTick'[4]
            /\ response' = "Zzz... Feeling rested now!"
       /\ op' = "clean" =>
            /\ hygiene' = Min(100, afterTick'[4] + 30)
            /\ happiness' = Max(0, afterTick'[2] - 5)
            /\ hunger' = afterTick'[1]
            /\ energy' = afterTick'[3]
            /\ response' = "Splash splash! All squeaky clean."]_vars

\* a clean of a pet with hygiene 80: the clamp acted
C10_Witness == op = "clean" /\ afterTick[4] = 80 /\ hygiene = 100

\* C11: talk and the status query apply no stat delta: after talk the pet
\* is as its leading tick alone leaves it, and summary leaves the four stats
\* and last_update exactly as they were.
C11_TalkAndSummaryApplyNoDelta ==
    [][/\ op' = "talk" =>
            /\ stats' = afterTick'
            /\ Pet' = tick_pet(Pet, now')
       /\ op' = "summary" =>
            /\ stats' = stats
            /\ last_update' = last_update]_vars

\* the default pet after a talk ten minutes after its creation
C11_Witness ==
    /\ created = DefaultStats
    /\ op = "talk"
    /\ calls = 1
    /\ last_update = 600
    /\ stats = <<25, 40, 25, 60>>

\* C12: is_alive is false exactly when at least one of the four stats
\* equals 0, and true exactly when all four stats are at least 1.
C12_IsAliveIsDerived ==
    /\ (~is_alive) <=> AnyZero(stats)
    /\ is_alive <=> (hunger >= 1 /\ happiness >= 1 /\ energy >= 1 /\ hygiene >= 1)

\* a pet that a call left with hunger alone at 0
C12_Witness ==
    /\ op # "init"
    /\ hunger = 0
    /\ happiness >= 1
    /\ energy >= 1
    /\ hygiene >= 1
    /\ ~is_alive

\* C14: tick is idempotent for a fixed clock reading: a tick that reads the
\* clock reading of the tick just before it, whether that reading is before,
\* equal to or after last_update, changes neither the stats nor last_update.
C14_TickIdempotent ==
    [][(op = "tick" /\ op' = "tick" /\ now' = now)
         => (stats' = stats /\ last_update' = last_update)]_vars

\* the default pet ticked twice with the clock at 15 seconds
C14_Witness ==
    /\ created = DefaultStats
    /\ calls = 2
    /\ before = <<"tick", 15>>
    /\ op = "tick"
    /\ now = 15
    /\ last_update = 15
    /\ hunger = 64

\* The descriptors of the stats below 30, in the order hunger, happiness,
\* energy, hygiene
Descriptors ==
    LET d(value, name) == IF value < 30 THEN <<name>> ELSE <<>>
    IN  d(hunger, "hungry") \o d(happiness, "bored") \o d(energy, "sleepy") \o d(hygiene, "dirty")

\* C13: for every combination of stat values the mood text lists exactly the
\* descriptors of the stats strictly below 30, in the order hunger,
\* happiness, energy, hygiene, joined by " and "; it is the "feeling great"
\* sentence exactly when no stat is below 30.
C13_MoodText ==
    op = "talk" =>
        LET n == Descriptors
        IN  /\ (response = "Tama is feeling great!")
                <=> (hunger >= 30 /\ happiness >= 30 /\ energy >= 30 /\ hygiene >= 30)
            /\ Len(n) = 1 => response = "Tama feels a bit " \o n[1] \o "."
            /\ Len(n) = 2 => response = "Tama feels a bit " \o n[1] \o " and " \o n[2] \o "."
            /\ Len(n) = 3 =>
                 response = "Tama feels a bit " \o n[1] \o " and " \o n[2] \o " and " \o n[3] \o "."
            /\ Len(n) = 4 =>
                 response = "Tama feels a bit hungry and bored and sleepy and dirty."
            /\ stats = <<10, 80, 10, 80>> => response = "Tama feels a bit hungry and sleepy."

\* the documented example: hunger 10, happiness 80, energy 10, hygiene 80
C13_Witness ==
    /\ op = "talk"
    /\ stats = <<10, 80, 10, 80>>
    /\ response = "Tama feels a bit hungry and sleepy."

\* C15: every query or action the window performs on the pet, the status
\* display included, is immediately preceded by a tick of the pet: the stats
\* it renders or changes were advanced to the time of the callback.
C15_ActionsOnAdvancedStats ==
    op \in {"feed", "play", "sleep", "clean", "talk", "summary"} => now = clock

\* C16, as a finite run shows it: hunger 65 at 4 points per minute is used up
\* after 975 seconds, so a window with the default pet and no button pressed
\* that has run for IdleHorizon seconds holds a pet that is not alive and has
\* handled the game over.
C16_IdlePetDies ==
    clock >= IdleHorizon => (~is_alive /\ game_overs >= 1)

\* C17: _handle_game_over runs at most once for a pet, over every
\* interleaving of the button callbacks and the rescheduled _update_loop.
C17_GameOverHandledOnce == game_overs <= 1

====
